---- MODULE Spec2Model ----
(***************************************************************************)
(* Model of light-clients/ics07-tendermint/src/consensus_state.rs:         *)
(* the ConsensusState value, its conversion to and from the raw protobuf   *)
(* message (RawConsensusState) and its projection from a block header.     *)
(*                                                                         *)
(* The conversions are pure functions.  A behaviour starts from one input  *)
(* (constructor arguments, a block header, a Header wrapper or a raw wire  *)
(* message) and then applies the conversions to it in every order the      *)
(* types allow:  new / From<block::Header> / From<Header> produce a        *)
(* ConsensusState, From<ConsensusState> encodes it, and TryFrom decodes a  *)
(* raw message.                                                            *)
(***************************************************************************)
EXTENDS Integers, Sequences, FiniteSets, TLC

VARIABLES input, op, cs, raw, result
vars == <<input, op, cs, raw, result>>

----------------------------------------------------------------------------
(* Bounds of the model *)

\* Time admits the years 1..9999; the model admits the days -DaySpan..DaySpan
\* around the epoch (day 0 = 1970-01-01) and samples one day beyond each end.
DaySpan == 1
\* Longest next_validators_hash byte sequence on the wire that is sampled.
MaxHashLen == 33
\* Longest root / app_hash byte sequence sampled besides the 32-byte one.
MaxRootLen == 2

(* Program constants *)
SHA256_HASH_SIZE == 32
NanosPerSec == 1000000000
SecsPerDay == 86400

----------------------------------------------------------------------------
(* Option and Result *)
None == [some |-> FALSE]
Some(x) == [some |-> TRUE, v |-> x]
Ok(x) == [ok |-> TRUE, val |-> x]
Err(e) == [ok |-> FALSE, err |-> e]

(* Byte sequences used as samples: n copies of b, and 1,2,..,n *)
Fill(n, b) == [i \in 1..n |-> b]
Ramp(n) == [i \in 1..n |-> i % 256]

----------------------------------------------------------------------------
(* tendermint::Hash: Sha256([u8; 32]) or None *)
HashNone == [alg |-> "None"]
HashSha256(bytes) == [alg |-> "Sha256", bytes |-> bytes]

\* Hash::as_bytes: the digest bytes; empty for Hash::None
as_bytes(h) == IF h.alg = "None" THEN << >> ELSE h.bytes

\* faulty variant: an empty byte sequence is rejected like any other wrong length
hash_from_bytes_strict(bytes) ==
    IF Len(bytes) = SHA256_HASH_SIZE THEN Ok(HashSha256(bytes))
    ELSE Err("invalid hash: expected hash size to be 32 bytes")

\* faulty variant: longer input is truncated to the digest length
hash_from_bytes_truncating(bytes) ==
    IF Len(bytes) = 0 THEN Ok(HashNone)
    ELSE IF Len(bytes) >= SHA256_HASH_SIZE
         THEN Ok(HashSha256(SubSeq(bytes, 1, SHA256_HASH_SIZE)))
         ELSE Err("invalid hash: expected hash size to be 32 bytes")

\* Hash::from_bytes(Algorithm::Sha256, bytes): empty input is Hash::None,
\* 32 bytes are a Sha256 digest, every other length is an error.
hash_from_bytes(bytes) ==
    IF Len(bytes) = 0 THEN Ok(HashNone)
    ELSE IF Len(bytes) = SHA256_HASH_SIZE THEN Ok(HashSha256(bytes))
         ELSE Err("invalid hash: expected hash size to be 32 bytes")

----------------------------------------------------------------------------
(* tendermint::Time: a UTC date and time of day with nanoseconds.           *)
(*   day  : days since 1970-01-01 (negative before), in MinDay..MaxDay      *)
(*   sec  : second of the day, 0..SecsPerDay-1                              *)
(*   nano : nanosecond of the second, 0..NanosPerSec-1                      *)
MinDay == 0 - DaySpan
MaxDay == DaySpan
Time(d, s, n) == [day |-> d, sec |-> s, nano |-> n]
Timestamp(s, n) == [seconds |-> s, nanos |-> n]

\* faulty variant: the nanosecond remainder is dropped
time_into_timestamp_whole_seconds(t) ==
    Timestamp(t.day * SecsPerDay + t.sec, 0)

\* From<Time> for tpb::Timestamp: seconds = unix_timestamp(), nanos = nanosecond()
time_into_timestamp(t) ==
    Timestamp(t.day * SecsPerDay + t.sec, t.nano)

\* faulty variant: nanos equal to one full second are carried into the seconds
timestamp_try_into_carrying(ts) ==
    IF ts.nanos < 0 \/ ts.nanos > NanosPerSec
    THEN Err("timestamp nanos out of range")
    ELSE LET secs == ts.seconds + (ts.nanos \div NanosPerSec)
             nano == ts.nanos % NanosPerSec
             day  == secs \div SecsPerDay
         IN IF day < MinDay \/ day > MaxDay
            THEN Err("date out of range")
            ELSE Ok(Time(day, secs % SecsPerDay, nano))

\* TryFrom<tpb::Timestamp> for Time: nanos must fit 0..999_999_999; the
\* instant seconds*1e9 + nanos is split by floor division into whole seconds
\* and nanosecond (computed here on the pair, the product exceeds the
\* checker's integers), the seconds into date and second of day; the date
\* must be in the range Time admits.
timestamp_try_into(ts) ==
    IF ts.nanos < 0 \/ ts.nanos > NanosPerSec - 1
    THEN Err("timestamp nanos out of range")
    ELSE LET secs == ts.seconds + (ts.nanos \div NanosPerSec)
             nano == ts.nanos % NanosPerSec
             day  == secs \div SecsPerDay
         IN IF day < MinDay \/ day > MaxDay
            THEN Err("date out of range")
            ELSE Ok(Time(day, secs % SecsPerDay, nano))

----------------------------------------------------------------------------
(* CommitmentRoot { bytes } *)

\* faulty variant: the root keeps at most SHA256_HASH_SIZE - 1 bytes
commitment_root_from_truncating(bytes) ==
    [bytes |-> SubSeq(bytes, 1, IF Len(bytes) < SHA256_HASH_SIZE THEN Len(bytes)
                                ELSE SHA256_HASH_SIZE - 1)]

\* From<Vec<u8>> for CommitmentRoot / CommitmentRoot::from_bytes
commitment_root_from(bytes) == [bytes |-> bytes]

\* CommitmentRoot::into_vec
into_vec(root) == root.bytes

MerkleRoot(bytes) == [hash |-> bytes]

----------------------------------------------------------------------------
(* ConsensusState and RawConsensusState *)
ConsensusState(ts, root, nvh) ==
    [timestamp |-> ts, root |-> root, next_validators_hash |-> nvh]

RawConsensusState(ts, root, nvh) ==
    [timestamp |-> ts, root |-> root, next_validators_hash |-> nvh]

\* Error::invalid_raw_consensus_state(reason): the one error constructor of
\* the decoder.  reason is the message; detail is the library's own message
\* where the code formats it into the reason ("invalid timestamp: {}").
invalid_raw_consensus_state(reason, detail) ==
    [kind |-> "InvalidRawConsensusState", reason |-> reason, detail |-> detail]

\* ConsensusState::new
new(root, timestamp, next_validators_hash) ==
    ConsensusState(timestamp, root, next_validators_hash)

----------------------------------------------------------------------------
(* TryFrom<RawConsensusState> for ConsensusState *)

\* faulty variant: an absent root becomes the empty root
try_from_default_root(r) ==
    IF ~r.timestamp.some
    THEN Err(invalid_raw_consensus_state("missing timestamp", ""))
    ELSE LET timestamp == timestamp_try_into(r.timestamp.v)
             hash == hash_from_bytes(r.next_validators_hash)
         IN IF ~timestamp.ok
            THEN Err(invalid_raw_consensus_state("invalid timestamp", timestamp.err))
            ELSE IF ~hash.ok
            THEN Err(invalid_raw_consensus_state(hash.err, ""))
            ELSE Ok(ConsensusState(timestamp.val,
                       commitment_root_from(IF r.root.some THEN r.root.v.hash ELSE << >>),
                       hash.val))

\* faulty variant: the validators hash is parsed before the root is looked at
try_from_hash_first(r) ==
    IF ~r.timestamp.some
    THEN Err(invalid_raw_consensus_state("missing timestamp", ""))
    ELSE LET timestamp == timestamp_try_into(r.timestamp.v)
             hash == hash_from_bytes(r.next_validators_hash)
         IN IF ~timestamp.ok
            THEN Err(invalid_raw_consensus_state("invalid timestamp", timestamp.err))
            ELSE IF ~hash.ok
            THEN Err(invalid_raw_consensus_state(hash.err, ""))
            ELSE IF ~r.root.some
            THEN Err(invalid_raw_consensus_state("missing commitment root", ""))
            ELSE Ok(ConsensusState(timestamp.val,
                                   commitment_root_from(r.root.v.hash),
                                   hash.val))

\* faulty variant: an empty root is rejected like an absent one
try_from_nonempty_root(r) ==
    IF ~r.timestamp.some
    THEN Err(invalid_raw_consensus_state("missing timestamp", ""))
    ELSE LET timestamp == timestamp_try_into(r.timestamp.v)
             hash == hash_from_bytes(r.next_validators_hash)
         IN IF ~timestamp.ok
            THEN Err(invalid_raw_consensus_state("invalid timestamp", timestamp.err))
            ELSE IF ~r.root.some \/ r.root.v.hash = << >>
            THEN Err(invalid_raw_consensus_state("missing commitment root", ""))
            ELSE IF ~hash.ok
            THEN Err(invalid_raw_consensus_state(hash.err, ""))
            ELSE Ok(ConsensusState(timestamp.val,
                                   commitment_root_from(r.root.v.hash),
                                   hash.val))

\* try_from: the timestamp must be present and convert into Time; then the
\* fields of the result are evaluated in the order written: root (must be
\* present, inner bytes taken as they are), timestamp, next_validators_hash
\* (must parse as a Sha256 Hash).  The first failure is returned.
try_from(r) ==
    IF ~r.timestamp.some
    THEN Err(invalid_raw_consensus_state("missing timestamp", ""))
    ELSE LET timestamp == timestamp_try_into(r.timestamp.v)
             hash == hash_from_bytes(r.next_validators_hash)
         IN IF ~timestamp.ok
            THEN Err(invalid_raw_consensus_state("invalid timestamp", timestamp.err))
            ELSE IF ~r.root.some
            THEN Err(invalid_raw_consensus_state("missing commitment root", ""))
            ELSE IF ~hash.ok
            THEN Err(invalid_raw_consensus_state(hash.err, ""))
            ELSE Ok(ConsensusState(timestamp.val,
                                   commitment_root_from(r.root.v.hash),
                                   hash.val))

----------------------------------------------------------------------------
(* From<ConsensusState> for RawConsensusState *)

\* faulty variant: the root is cut to the digest length
from_consensus_state_cut_root(value) ==
    RawConsensusState(Some(time_into_timestamp(value.timestamp)),
                      Some(MerkleRoot(SubSeq(into_vec(value.root), 1,
                           IF Len(into_vec(value.root)) < SHA256_HASH_SIZE
                           THEN 0 ELSE SHA256_HASH_SIZE))),
                      as_bytes(value.next_validators_hash))

\* from: timestamp through tpb::Timestamp {seconds, nanos}, root wrapped in a
\* MerkleRoot, next_validators_hash as its bytes; every field is Some
from_consensus_state(value) ==
    RawConsensusState(Some(time_into_timestamp(value.timestamp)),
                      Some(MerkleRoot(into_vec(value.root))),
                      as_bytes(value.next_validators_hash))

----------------------------------------------------------------------------
(* From<tendermint::block::Header> and From<Header> for ConsensusState *)

\* tendermint::block::Header, the fields read here and one that is not
BlockHeader(height, time, app_hash, nvh) ==
    [height |-> height, time |-> time, app_hash |-> app_hash,
     next_validators_hash |-> nvh]

\* crate::header::Header: the signed header and the rest of the wrapper
Header(h, commit, trusted_height) ==
    [signed_header |-> [header |-> h, commit |-> commit],
     trusted_height |-> trusted_height]

\* faulty variant: an absent validators hash is replaced by the all-zero digest
from_block_header_zero_hash(header) ==
    ConsensusState(header.time,
                   commitment_root_from(header.app_hash),
                   IF header.next_validators_hash.alg = "None"
                   THEN HashSha256(Fill(SHA256_HASH_SIZE, 0))
                   ELSE header.next_validators_hash)

\* From<tendermint::block::Header>
from_block_header(header) ==
    ConsensusState(header.time,
                   commitment_root_from(header.app_hash),
                   header.next_validators_hash)

\* From<Header>: forwards signed_header.header
from_header(header) == from_block_header(header.signed_header.header)

----------------------------------------------------------------------------
(* The inputs a behaviour may start from *)

SecondsSamples ==
    {d * SecsPerDay + s : d \in (MinDay - 1)..(MaxDay + 1), s \in {0, SecsPerDay - 1}}
NanosSamples == {-1, 0, NanosPerSec \div 2, NanosPerSec - 1, NanosPerSec}
RootSamples == {Ramp(n) : n \in 0..MaxRootLen} \cup {Fill(SHA256_HASH_SIZE, 1)}
HashBytesSamples == {Fill(n, 170) : n \in 0..MaxHashLen} \cup {Ramp(SHA256_HASH_SIZE)}

\* the values of Time, Hash and CommitmentRoot
Times ==
    {Time(d, s, n) : d \in MinDay..MaxDay, s \in {0, SecsPerDay - 1},
                     n \in {0, NanosPerSec \div 2, NanosPerSec - 1}}
Hashes ==
    {HashNone} \cup {HashSha256(b) : b \in {Fill(SHA256_HASH_SIZE, 170), Ramp(SHA256_HASH_SIZE)}}
Roots == {commitment_root_from(b) : b \in RootSamples}

RawInputs ==
    {RawConsensusState(ts, root, nvh) :
        ts \in {None} \cup {Some(Timestamp(s, n)) : s \in SecondsSamples, n \in NanosSamples},
        root \in {None} \cup {Some(MerkleRoot(b)) : b \in RootSamples},
        nvh \in HashBytesSamples}
BlockHeaders ==
    {BlockHeader(height, t, a, h) :
        height \in {1, 2}, t \in Times, a \in RootSamples, h \in Hashes}
Headers ==
    {Header(h, c, th) : h \in BlockHeaders, c \in {"commit_a", "commit_b"}, th \in {1}}

Inputs ==
    {[kind |-> "fields", root |-> r, timestamp |-> t, next_validators_hash |-> h] :
        r \in Roots, t \in Times, h \in Hashes}
    \cup {[kind |-> "block_header", header |-> h] : h \in BlockHeaders}
    \cup {[kind |-> "header", header |-> h] : h \in Headers}
    \cup {[kind |-> "raw", raw |-> w] : w \in RawInputs}

----------------------------------------------------------------------------
(* State:                                                                   *)
(*   input  : what the behaviour started from                               *)
(*   op     : the conversion applied last ("init" before the first)         *)
(*   cs     : the ConsensusState built or encoded last, if any              *)
(*   raw    : the RawConsensusState at hand (received or encoded), if any   *)
(*   result : the Result of the last try_from, if any                       *)

Init ==
    /\ input \in Inputs
    /\ op = "init"
    /\ cs = None
    /\ raw = IF input.kind = "raw" THEN Some(input.raw) ELSE None
    /\ result = None

\* ConsensusState::new(root, timestamp, next_validators_hash)
New ==
    /\ op = "init" /\ input.kind = "fields"
    /\ cs' = Some(new(input.root, input.timestamp, input.next_validators_hash))
    /\ op' = "new"
    /\ UNCHANGED <<input, raw, result>>

\* ConsensusState::from(header: tendermint::block::Header)
FromBlockHeader ==
    /\ op = "init" /\ input.kind = "block_header"
    /\ cs' = Some(from_block_header(input.header))
    /\ op' = "from_block_header"
    /\ UNCHANGED <<input, raw, result>>

\* ConsensusState::from(header: Header)
FromHeader ==
    /\ op = "init" /\ input.kind = "header"
    /\ cs' = Some(from_header(input.header))
    /\ op' = "from_header"
    /\ UNCHANGED <<input, raw, result>>

\* RawConsensusState::from(value), applied to the state built last or to the
\* one the last try_from returned
FromConsensusState ==
    /\ \/ op \in {"new", "from_block_header", "from_header"}
       \/ op = "try_from" /\ result.v.ok
    /\ LET value == IF op = "try_from" THEN result.v.val ELSE cs.v
       IN /\ cs' = Some(value)
          /\ raw' = Some(from_consensus_state(value))
    /\ op' = "from"
    /\ UNCHANGED <<input, result>>

\* ConsensusState::try_from(raw), applied to the message received or encoded
TryFrom ==
    /\ op \in {"init", "from"} /\ raw.some
    /\ result' = Some(try_from(raw.v))
    /\ op' = "try_from"
    /\ UNCHANGED <<input, cs, raw>>

Next == New \/ FromBlockHeader \/ FromHeader \/ FromConsensusState \/ TryFrom

Spec == Init /\ [][Next]_vars

TypeOK ==
    /\ input \in Inputs
    /\ op \in {"init", "new", "from_block_header", "from_header", "from", "try_from"}
    /\ cs.some => cs.v.timestamp \in Times /\ as_bytes(cs.v.next_validators_hash) \in HashBytesSamples
    /\ result.some => result.v.ok \in BOOLEAN

----------------------------------------------------------------------------
(* The four checks of the decoder, stated on the raw message *)
TimestampPresent(w) == w.timestamp.some
TimestampConvertible(w) ==
    /\ w.timestamp.v.nanos >= 0 /\ w.timestamp.v.nanos < NanosPerSec
    /\ w.timestamp.v.seconds >= MinDay * SecsPerDay
    /\ w.timestamp.v.seconds < (MaxDay + 1) * SecsPerDay
RootPresent(w) == w.root.some
HashParses(w) == Len(w.next_validators_hash) \in {0, SHA256_HASH_SIZE}
ChecksOneToThree(w) ==
    TimestampPresent(w) /\ TimestampConvertible(w) /\ RootPresent(w)

InvalidHashReason == "invalid hash: expected hash size to be 32 bytes"
\* the outcome of the earliest failing check, "ok" when none fails
FirstFailure(w) ==
    IF ~TimestampPresent(w) THEN "missing timestamp"
    ELSE IF ~TimestampConvertible(w) THEN "invalid timestamp"
    ELSE IF ~RootPresent(w) THEN "missing commitment root"
    ELSE IF ~HashParses(w) THEN InvalidHashReason
    ELSE "ok"

\* the instant a Time denotes, as whole seconds since the epoch and nanoseconds
DenotesInstant(t, seconds, nanos) ==
    t.day * SecsPerDay + t.sec = seconds /\ t.nano = nanos
\* the bytes of a Hash value are exactly b (no bytes for the absent hash)
HashHasBytes(h, b) ==
    \/ h.alg = "None" /\ b = << >>
    \/ h.alg = "Sha256" /\ h.bytes = b /\ Len(b) = SHA256_HASH_SIZE

Decoded == op = "try_from"
Encoded == op = "from"

----------------------------------------------------------------------------
\* C1: round trip. Whenever a ConsensusState has been encoded to its raw form
\* and that raw form decoded, the decode succeeded and returned a state equal
\* to the encoded one in all three fields.
C1_RoundTrip ==
    (Decoded /\ cs.some) =>
        /\ result.v.ok
        /\ result.v.val.timestamp = cs.v.timestamp
        /\ result.v.val.root = cs.v.root
        /\ result.v.val.next_validators_hash = cs.v.next_validators_hash

\* a state with the empty root, the absent hash and a time before the epoch
\* has been encoded and decoded
C1_Witness ==
    /\ Decoded /\ cs.some /\ result.v.ok
    /\ cs.v.root.bytes = << >>
    /\ cs.v.next_validators_hash = HashNone
    /\ cs.v.timestamp.day < 0 /\ cs.v.timestamp.nano > 0

\* C2 (as stated): with timestamp and root present and valid, every
\* next_validators_hash of a length other than 32, length 0 included, is
\* rejected with the invalid-hash error, and every decoded state carries a
\* 32-byte digest.
C2_AnyLengthBut32Rejected ==
    Decoded =>
        /\ (ChecksOneToThree(raw.v) /\ Len(raw.v.next_validators_hash) # SHA256_HASH_SIZE) =>
              (~result.v.ok /\ result.v.err.reason = InvalidHashReason)
        /\ result.v.ok =>
              /\ result.v.val.next_validators_hash.alg = "Sha256"
              /\ Len(result.v.val.next_validators_hash.bytes) = SHA256_HASH_SIZE

\* C2 (amended): with timestamp and root present and valid, every
\* next_validators_hash of a length other than 0 and 32 is rejected with the
\* invalid-hash error, never truncated or padded; the empty byte sequence
\* decodes to the absent hash (Hash::None); every decoded state carries either
\* the 32 wire bytes as a Sha256 digest or the absent hash.
C2_WrongLengthRejected ==
    Decoded =>
        /\ (ChecksOneToThree(raw.v) /\ Len(raw.v.next_validators_hash) \notin {0, SHA256_HASH_SIZE}) =>
              (~result.v.ok /\ result.v.err.reason = InvalidHashReason)
        /\ (ChecksOneToThree(raw.v) /\ Len(raw.v.next_validators_hash) = 0) =>
              (result.v.ok /\ result.v.val.next_validators_hash = HashNone)
        /\ result.v.ok =>
              HashHasBytes(result.v.val.next_validators_hash, raw.v.next_validators_hash)

\* a message valid but for a 33-byte hash has been rejected
C2_Witness ==
    /\ Decoded /\ ChecksOneToThree(raw.v)
    /\ Len(raw.v.next_validators_hash) = SHA256_HASH_SIZE + 1
    /\ ~result.v.ok

\* C3: an absent timestamp is rejected with the error naming the missing
\* timestamp; a valid timestamp with an absent root is rejected with the error
\* naming the missing commitment root; both differ from the errors for an
\* invalid timestamp and an invalid hash, and no state is returned.
C3_MissingFields ==
    Decoded =>
        /\ ~TimestampPresent(raw.v) =>
              result.v = Err(invalid_raw_consensus_state("missing timestamp", ""))
        /\ (TimestampPresent(raw.v) /\ TimestampConvertible(raw.v) /\ ~RootPresent(raw.v)) =>
              result.v = Err(invalid_raw_consensus_state("missing commitment root", ""))
        /\ (~TimestampPresent(raw.v) \/ (TimestampConvertible(raw.v) /\ ~RootPresent(raw.v))) =>
              /\ ~result.v.ok
              /\ result.v.err.reason \notin {"invalid timestamp", InvalidHashReason}

\* a message with a valid timestamp and a valid hash but no root was rejected
C3_Witness ==
    /\ Decoded /\ TimestampPresent(raw.v) /\ TimestampConvertible(raw.v)
    /\ ~RootPresent(raw.v) /\ Len(raw.v.next_validators_hash) = SHA256_HASH_SIZE
    /\ ~result.v.ok

\* C4: the error returned is that of the earliest failing check in the order
\* timestamp presence, timestamp conversion, root presence, hash parsing; a
\* state is returned only when none fails.
C4_EarliestFailure ==
    Decoded =>
        IF result.v.ok THEN FirstFailure(raw.v) = "ok"
        ELSE result.v.err.reason = FirstFailure(raw.v)

\* a message with the root absent and a hash of wrong length was decoded
C4_Witness ==
    /\ Decoded /\ TimestampPresent(raw.v) /\ TimestampConvertible(raw.v)
    /\ ~RootPresent(raw.v) /\ ~HashParses(raw.v)
    /\ ~result.v.ok /\ result.v.err.reason = "missing commitment root"

\* C5: try_from returns a state exactly when all four checks pass; then the
\* timestamp denotes the wire (seconds, nanos), the root is the inner root
\* bytes and the hash is the wire hash bytes; otherwise it returns an
\* InvalidRawConsensusState error and no state.
C5_AllOrNothing ==
    Decoded =>
        /\ result.v.ok <=> (ChecksOneToThree(raw.v) /\ HashParses(raw.v))
        /\ result.v.ok =>
              /\ DOMAIN result.v = {"ok", "val"}
              /\ DenotesInstant(result.v.val.timestamp,
                                raw.v.timestamp.v.seconds, raw.v.timestamp.v.nanos)
              /\ result.v.val.root.bytes = raw.v.root.v.hash
              /\ HashHasBytes(result.v.val.next_validators_hash, raw.v.next_validators_hash)
        /\ ~result.v.ok =>
              /\ DOMAIN result.v = {"ok", "err"}
              /\ result.v.err.kind = "InvalidRawConsensusState"

\* a received message with a 32-byte root and a 32-byte hash was decoded
C5_Witness ==
    /\ Decoded /\ input.kind = "raw" /\ result.v.ok
    /\ Len(raw.v.root.v.hash) = SHA256_HASH_SIZE
    /\ raw.v.next_validators_hash = Ramp(SHA256_HASH_SIZE)

\* C6: a present timestamp with nanos outside [0, 1e9) or seconds outside the
\* range of Time is rejected as an invalid timestamp, with the conversion's
\* reason; one with nanos and seconds in range passes the timestamp checks
\* and a decoded state's timestamp denotes exactly (seconds, nanos).
C6_TimestampConversion ==
    (Decoded /\ TimestampPresent(raw.v)) =>
        /\ ~TimestampConvertible(raw.v) =>
              /\ ~result.v.ok
              /\ result.v.err.reason = "invalid timestamp"
              /\ result.v.err.detail \in {"timestamp nanos out of range", "date out of range"}
        /\ TimestampConvertible(raw.v) =>
              /\ ~result.v.ok => result.v.err.reason \notin {"missing timestamp", "invalid timestamp"}
              /\ (RootPresent(raw.v) /\ HashParses(raw.v)) =>
                    /\ result.v.ok
                    /\ DenotesInstant(result.v.val.timestamp,
                                      raw.v.timestamp.v.seconds, raw.v.timestamp.v.nanos)

\* a message whose nanos are one full second was rejected
C6_Witness ==
    /\ Decoded /\ TimestampPresent(raw.v)
    /\ raw.v.timestamp.v.nanos = NanosPerSec
    /\ RootPresent(raw.v) /\ HashParses(raw.v)
    /\ ~result.v.ok /\ result.v.err.reason = "invalid timestamp"

\* C7: the projection of a block header yields the state with root =
\* app_hash, timestamp = time, next_validators_hash = the header's; the
\* projection of a Header wrapper yields the same for its
\* signed_header.header, whatever else the wrapper holds.
C7_Projection ==
    /\ op = "from_block_header" =>
          /\ cs.some
          /\ cs.v.root.bytes = input.header.app_hash
          /\ cs.v.timestamp = input.header.time
          /\ cs.v.next_validators_hash = input.header.next_validators_hash
    /\ op = "from_header" =>
          /\ cs.some
          /\ cs.v.root.bytes = input.header.signed_header.header.app_hash
          /\ cs.v.timestamp = input.header.signed_header.header.time
          /\ cs.v.next_validators_hash = input.header.signed_header.header.next_validators_hash

\* a Header wrapper whose block header has the absent validators hash was projected
C7_Witness ==
    /\ op = "from_header" /\ cs.some
    /\ input.header.signed_header.header.next_validators_hash = HashNone
    /\ input.header.signed_header.commit = "commit_b"
    /\ Len(cs.v.root.bytes) = SHA256_HASH_SIZE

\* C8: the encoded message has the timestamp present, denoting the state's
\* timestamp with nanos in [0, 1e9), the root present with the state's root
\* bytes, and next_validators_hash equal to the state's digest bytes.
C8_EncodePopulated ==
    Encoded =>
        /\ raw.some /\ raw.v.timestamp.some /\ raw.v.root.some
        /\ raw.v.timestamp.v.nanos >= 0 /\ raw.v.timestamp.v.nanos < NanosPerSec
        /\ DenotesInstant(cs.v.timestamp, raw.v.timestamp.v.seconds, raw.v.timestamp.v.nanos)
        /\ raw.v.root.v.hash = cs.v.root.bytes
        /\ HashHasBytes(cs.v.next_validators_hash, raw.v.next_validators_hash)

\* a state with a 32-byte root and a time before the epoch was encoded
C8_Witness ==
    /\ Encoded /\ raw.some
    /\ Len(cs.v.root.bytes) = SHA256_HASH_SIZE
    /\ cs.v.timestamp.day < 0 /\ cs.v.timestamp.sec > 0
    /\ cs.v.next_validators_hash.alg = "Sha256"

\* C9: a message with a valid timestamp, a valid hash and the root message
\* present decodes to a state whose root is the inner bytes, of any length,
\* the empty one included.
C9_RootAsIs ==
    (Decoded /\ ChecksOneToThree(raw.v) /\ HashParses(raw.v)) =>
        /\ result.v.ok
        /\ result.v.val.root.bytes = raw.v.root.v.hash

\* a received message with an empty inner root was decoded to a state
C9_Witness ==
    /\ Decoded /\ input.kind = "raw" /\ RootPresent(raw.v)
    /\ raw.v.root.v.hash = << >>
    /\ result.v.ok /\ result.v.val.root.bytes = << >>

\* C10: encoding the state decoded from an accepted message gives that message
\* back, and the encoding of a state projected from a header, the absent
\* validators hash included, decodes to the same state.
C10_Canonical ==
    /\ (Encoded /\ input.kind = "raw") => raw.v = input.raw
    /\ (Decoded /\ input.kind \in {"block_header", "header"}) =>
          (result.v.ok /\ result.v.val = cs.v)

\* the state projected from a block header with the absent validators hash
\* was encoded and decoded
C10_Witness ==
    /\ Decoded /\ input.kind = "block_header" /\ result.v.ok
    /\ input.header.next_validators_hash = HashNone
    /\ input.header.time.sec > 0
====
